---- MODULE Spec2Model ----
(***************************************************************************)
(* fasta/examples/max_norm.py: the max-norm problem                        *)
(*     min_X <S, X X^T>  subject to a bound on the L2 norm of every row    *)
(* as it is handed to the forward-backward solver: the objective f, its    *)
(* gradient gradf, the proximal step proxg, the two-moons data set built   *)
(* by construct, and plot.                                                 *)
(*                                                                         *)
(* Numbers are exact rationals <<n, d>> in lowest terms with d > 0 (the    *)
(* program's floats, read as reals).  A matrix is a sequence of rows, a    *)
(* row a sequence of rationals.  la.norm takes a square root, so matrices  *)
(* handed to proxg are drawn from those whose rows have rational norms.    *)
(***************************************************************************)
EXTENDS Integers, Sequences, FiniteSets

VARIABLES
    mu,         \* self.mu, the regularization parameter
    S,          \* self.S, the edge weight matrix
    X,          \* the matrix the next call is made on (the solver's iterate)
    ret,        \* the last call made: its name, arguments and results
    iter,       \* number of calls made so far
    points,     \* self.points
    moons,      \* construct's points as they are before the noise is added
    adaptive    \* the module-level name `adaptive` that plot reads

vars == <<mu, S, X, ret, iter, points, moons, adaptive>>

\* ------------------------------------------------------------------ bounds
MaxEntry == 4      \* matrix entries are integers in -MaxEntry..MaxEntry
MaxMu == 4         \* mu ranges over 0, 1/2, ..., MaxMu/2
MaxCalls == 2      \* consecutive calls of proxg, iterations of the solver
MaxWeight == 1     \* entries of S are integers in -MaxWeight..MaxWeight
MaxN == 3          \* construct builds 1..MaxN points

\* a name that is not bound holds nothing
Undefined == <<>>
\* construct has not run
NoMoons == [N |-> 0, dx |-> <<>>, pts |-> <<>>]

\* ------------------------------------------------------- exact arithmetic
Abs(a) == IF a < 0 THEN -a ELSE a

RECURSIVE GCD(_, _)
GCD(a, b) == IF b = 0 THEN a ELSE GCD(b, a % b)

\* n/d in lowest terms; x/0 is kept as numpy keeps it: nan <<0,0>>, inf <<+-1,0>>
Q(n, d) ==
    IF d = 0 THEN <<(IF n > 0 THEN 1 ELSE IF n < 0 THEN -1 ELSE 0), 0>>
    ELSE LET g == GCD(Abs(n), Abs(d))
             s == IF d < 0 THEN -1 ELSE 1
         IN  <<(s * n) \div g, (s * d) \div g>>

Zero == <<0, 1>>
One == <<1, 1>>

RAdd(a, b) == Q(a[1] * b[2] + b[1] * a[2], a[2] * b[2])
RNeg(a) == <<-a[1], a[2]>>
RSub(a, b) == RAdd(a, RNeg(b))
RMul(a, b) == Q(a[1] * b[1], a[2] * b[2])
RDiv(a, b) == Q(a[1] * b[2], a[2] * b[1])
RLe(a, b) == a[1] * b[2] <= b[1] * a[2]
RLt(a, b) == a[1] * b[2] < b[1] * a[2]
RMax(a, b) == IF RLe(a, b) THEN b ELSE a
RSign(a) == IF a[1] > 0 THEN 1 ELSE IF a[1] < 0 THEN -1 ELSE 0

RECURSIVE SqrtSearch(_, _, _)
SqrtSearch(n, lo, hi) ==
    IF lo >= hi THEN lo
    ELSE LET mid == (lo + hi + 1) \div 2
         IN  IF mid * mid <= n THEN SqrtSearch(n, mid, hi)
             ELSE SqrtSearch(n, lo, mid - 1)

ISqrt(n) == SqrtSearch(n, 0, n)
IsSquare(n) == ISqrt(n) * ISqrt(n) = n
HasSqrt(a) == IsSquare(a[1]) /\ IsSquare(a[2])
RSqrt(a) == <<ISqrt(a[1]), ISqrt(a[2])>>

\* ---------------------------------------------------------------- vectors
RECURSIVE RSum(_)
RSum(v) == IF Len(v) = 0 THEN Zero ELSE RAdd(v[1], RSum(Tail(v)))

IsZeroRow(v) == \A j \in 1..Len(v) : v[j] = Zero
Dot(u, v) == RSum([j \in 1..Len(u) |-> RMul(u[j], v[j])])
SumSq(v) == Dot(v, v)

\* --------------------------------------------------------------- matrices
Rows(M) == Len(M)
Cols(M) == IF Len(M) = 0 THEN 0 ELSE Len(M[1])
Shape(M) == <<Rows(M), Cols(M)>>
IsMatrix(M, n, k) == Len(M) = n /\ \A i \in 1..n : Len(M[i]) = k

Transpose(M) == [j \in 1..Cols(M) |-> [i \in 1..Rows(M) |-> M[i][j]]]
MatAdd(A, B) == [i \in 1..Rows(A) |-> [j \in 1..Cols(A) |-> RAdd(A[i][j], B[i][j])]]
MatSub(A, B) == [i \in 1..Rows(A) |-> [j \in 1..Cols(A) |-> RSub(A[i][j], B[i][j])]]
MatScale(c, A) == [i \in 1..Rows(A) |-> [j \in 1..Cols(A) |-> RMul(c, A[i][j])]]
\* A @ B
MatMul(A, B) ==
    [i \in 1..Rows(A) |-> [j \in 1..Cols(B) |->
        RSum([l \in 1..Cols(A) |-> RMul(A[i][l], B[l][j])])]]
\* np.sum(A * B): the sum of the entrywise products
Inner(A, B) == RSum([i \in 1..Rows(A) |-> Dot(A[i], B[i])])

\* ------------------------------------------------- solve: f, gradf and g
Two == <<2, 1>>

\* np.sum(self.S * (X @ X.T))
f(M) == Inner(S, MatMul(M, Transpose(M)))

\* gradf written for a symmetric S only
gradf_SymmetricOnly(M) == MatScale(Two, MatMul(S, M))

\* (self.S + self.S.T) @ X
gradf(M) == MatMul(MatAdd(S, Transpose(S)), M)

g(M) == Zero

\* ----------------------------------------------------------- solve: proxg
\* la.norm(X, axis=1)
norms(M) == [i \in 1..Rows(M) |-> RSqrt(SumSq(M[i]))]
ExactNorms(M) == \A i \in 1..Rows(M) : HasSqrt(SumSq(M[i]))

\* variants of scale, each a slip the claims below must catch
\* np.maximum dropped: every row is divided by its own norm
scale_NoMaximum(M) ==
    [i \in 1..Rows(M) |->
        LET n == RSqrt(SumSq(M[i]))
        IN  RAdd(n, IF n = Zero THEN One ELSE Zero)]

\* the guard (norms == 0) dropped
scale_NoZeroGuard(M) ==
    [i \in 1..Rows(M) |-> RMax(RSqrt(SumSq(M[i])), mu)]

\* the guard added to every row, not only to the rows of norm 0
scale_GuardEveryRow(M) ==
    [i \in 1..Rows(M) |-> RAdd(RMax(RSqrt(SumSq(M[i])), mu), One)]

\* np.minimum for np.maximum
scale_Minimum(M) ==
    [i \in 1..Rows(M) |->
        LET n == RSqrt(SumSq(M[i]))
        IN  RAdd((IF RLe(n, mu) THEN n ELSE mu), IF n = Zero THEN One ELSE Zero)]

\* np.maximum(norms, self.mu) + (norms == 0)
scale(M) ==
    [i \in 1..Rows(M) |->
        LET n == RSqrt(SumSq(M[i]))
        IN  RAdd(RMax(n, mu), IF n = Zero THEN One ELSE Zero)]

\* the step size used as a shrinkage: mu X / (scale (1 + t))
proxg_ScaledByStep(M, tt) ==
    [i \in 1..Rows(M) |->
        LET sc == RMul(scale(M)[i], RAdd(One, tt))
        IN  [j \in 1..Len(M[i]) |-> RDiv(RMul(mu, M[i][j]), sc)]]

\* self.mu * X / scale[:,np.newaxis]
proxg(M, tt) ==
    [i \in 1..Rows(M) |->
        LET sc == scale(M)[i]
        IN  [j \in 1..Len(M[i]) |-> RDiv(RMul(mu, M[i][j]), sc)]]

\* ------------------------------------------------- __init__ and construct
\* A point is the point of the unit circle at the fraction `turn` of the full
\* turn (the angle is 2 pi turn), embedded in D dimensions, plus the offset
\* `off`: (cos + off[1], sin + off[2], off[3], ...).
\* theta = np.arange(0, N) / N * 2 * np.pi; points[:,0] = cos, points[:,1] = sin
circle(N, D) ==
    [i \in 1..N |-> [turn |-> Q(i - 1, N), off |-> [j \in 1..D |-> Zero]]]

\* points[:N//2,:2] -= dx; row i of the sequence is row i - 1 of the array
separate(pts, N, dx) ==
    [i \in 1..Len(pts) |->
        IF i - 1 < N \div 2
        THEN [turn |-> pts[i].turn,
              off |-> [j \in 1..Len(pts[i].off) |->
                         IF j <= 2 THEN RSub(pts[i].off[j], dx[j])
                         ELSE pts[i].off[j]]]
        ELSE pts[i]]

\* points += noise * np.random.randn(N, D), z the matrix drawn
addnoise(pts, noise, z) ==
    [i \in 1..Len(pts) |->
        [turn |-> pts[i].turn,
         off |-> [j \in 1..Len(pts[i].off) |->
                    RAdd(pts[i].off[j], RMul(noise, z[i][j]))]]]

\* np.random.randn(N, K) / np.sqrt(K) / 10, z0 the matrix drawn
Ten == <<10, 1>>
guess(z0, K) ==
    [i \in 1..Rows(z0) |-> [j \in 1..Cols(z0) |->
        RDiv(RDiv(z0[i][j], RSqrt(<<K, 1>>)), Ten)]]

\* delta - np.exp(-distances**2 / sigma**2 / 2): the weight of the edge i-j
\* is kept as the pair of points it is computed from
sigma == <<1, 10>>
delta == <<1, 100>>
similarity(pts) ==
    [i \in 1..Len(pts) |-> [j \in 1..Len(pts) |->
        [delta |-> delta, sigma |-> sigma, between |-> {pts[i], pts[j]}]]]

\* ------------------------------------------------------------------- plot
\* what plot(solution) does when the module-level name holds glob, self.points
\* is pts and np.random.randn(solution.shape[1]) returns r
plot(glob, pts, solution, r) ==
    IF glob = Undefined
    THEN [raised |-> "NameError", r |-> <<>>, labels |-> <<>>, blue |-> {}, red |-> {}]
    ELSE IF Cols(glob[1]) # Len(r)
    THEN [raised |-> "ValueError", r |-> r, labels |-> <<>>, blue |-> {}, red |-> {}]
    ELSE LET labels == [i \in 1..Rows(glob[1]) |-> RSign(Dot(glob[1][i], r))]
         IN  IF Len(labels) # Len(pts)
             THEN [raised |-> "IndexError", r |-> r, labels |-> labels,
                   blue |-> {}, red |-> {}]
             ELSE [raised |-> "none", r |-> r, labels |-> labels,
                   blue |-> {i \in 1..Len(pts) : labels[i] < 0},
                   red |-> {i \in 1..Len(pts) : labels[i] > 0}]

\* ------------------------------------------------------------ input sets
Ints == {<<n, 1>> : n \in -MaxEntry..MaxEntry}
Halves(n) == {<<0, 1>>} \cup {Q(m, 2) : m \in 1..n}
Mus == Halves(MaxMu)
StepSizes == {<<1, 2>>, <<2, 1>>}
Shapes == {<<1, 1>>, <<2, 1>>, <<1, 2>>}

Vectors(k, E) == [1..k -> E]
Matrices(n, k, E) == [1..n -> Vectors(k, E)]
ExactRows(k) == {v \in Vectors(k, Ints) : HasSqrt(SumSq(v))}
ExactMatrices == UNION {[1..sh[1] -> ExactRows(sh[2])] : sh \in Shapes}

Weights == {<<n, 1>> : n \in -MaxWeight..MaxWeight}
Units == {<<-1, 1>>, Zero, One}

Couplings == {<<-1, 1>>, One}
Starts == {<<-3, 1>>, Zero, One, <<4, 1>>}

Dims == {2, 3}
Ranks == {1, 4}
Separations == {<<One, <<1, 2>>>>, <<Two, Zero>>}
NoiseLevels == {Zero, <<3, 20>>}
\* a few of the matrices np.random.randn(n, k) can return
Randn(n, k) ==
    {[i \in 1..n |-> [j \in 1..k |-> IF (i + j) % 2 = 0 THEN a ELSE RNeg(a)]] :
        a \in {<<-1, 1>>, One}}
\* a few of the N x K matrices the solver can return
Solutions(n, k) ==
    {[i \in 1..n |-> [j \in 1..k |-> IF i % 2 = 0 THEN a ELSE b]] :
        a, b \in {<<-1, 1>>, One}}

NoCall == [fn |-> "none"]

\* ------------------------------------------------- proxg on its own
InitProx ==
    /\ mu \in Mus
    /\ X \in ExactMatrices
    /\ S = <<>>
    /\ ret = NoCall
    /\ iter = 0
    /\ points = <<>>
    /\ moons = NoMoons
    /\ adaptive = Undefined

Proxg(tt) ==
    /\ iter < MaxCalls
    /\ ExactNorms(X)
    /\ LET out == proxg(X, tt)
       IN  /\ ret' = [fn |-> "proxg", arg |-> X, t |-> tt, scale |-> scale(X),
                      val |-> out, nth |-> iter + 1, prev |-> ret]
           /\ X' = out
    /\ iter' = iter + 1
    /\ UNCHANGED <<mu, S, points, moons, adaptive>>

NextProx == \E tt \in StepSizes : Proxg(tt)

SpecProx == InitProx /\ [][NextProx]_vars

\* ------------------------------------------- f and gradf on their own
InitGrad ==
    /\ mu = One
    /\ \E sh \in Shapes :
          /\ S \in Matrices(sh[1], sh[1], Weights)
          /\ X \in Matrices(sh[1], sh[2], Units)
    /\ ret = NoCall
    /\ iter = 0
    /\ points = <<>>
    /\ moons = NoMoons
    /\ adaptive = Undefined

\* f and gradf evaluated at X, and f again at X + H
Expand(H) ==
    /\ iter = 0
    /\ Shape(H) = Shape(X)
    /\ ret' = [fn |-> "f", arg |-> X, H |-> H, f0 |-> f(X), grad |-> gradf(X),
               g0 |-> g(X), f1 |-> f(MatAdd(X, H))]
    /\ X' = MatAdd(X, H)
    /\ iter' = iter + 1
    /\ UNCHANGED <<mu, S, points, moons, adaptive>>

NextGrad == \E sh \in Shapes : \E H \in Matrices(sh[1], sh[2], Units) : Expand(H)

SpecGrad == InitGrad /\ [][NextGrad]_vars

\* C3: for every square S, symmetric or not, and all X and H of one shape,
\* f(X + H) - f(X) = <gradf(X), H> + <S, H H^T>.
C3_GradientOfF ==
    ret.fn = "f" =>
        RSub(ret.f1, ret.f0) =
            RAdd(Inner(ret.grad, ret.H), Inner(S, MatMul(ret.H, Transpose(ret.H))))

\* S is not symmetric and the first-order term is not zero
C3_Witness ==
    /\ ret.fn = "f"
    /\ S # Transpose(S)
    /\ Inner(ret.grad, ret.H) # Zero
    /\ ret.grad # MatScale(Two, MatMul(S, ret.arg))
    /\ ret.f1 # ret.f0

\* --------------------------------------- forward-backward iteration
\* solve was called with the initial guess X0 = X
InitFB ==
    /\ mu \in Mus
    /\ \E sh \in Shapes :
          /\ S \in Matrices(sh[1], sh[1], Couplings)
          /\ X \in {M \in Matrices(sh[1], sh[2], Starts) : ExactNorms(M)}
    /\ ret = [fn |-> "solve", X0 |-> X]
    /\ iter = 0
    /\ points = <<>>
    /\ moons = NoMoons
    /\ adaptive = Undefined

\* one iteration of the solver: a gradient step on f, then the proximal step
Step(tt) ==
    LET z == MatSub(X, MatScale(tt, gradf(X)))
        out == proxg(z, tt)
    IN  /\ iter < MaxCalls
        /\ ExactNorms(z)
        /\ ret' = [fn |-> "step", X0 |-> ret.X0, arg |-> X, t |-> tt, z |-> z,
                   val |-> out]
        /\ X' = out
        /\ iter' = iter + 1
        /\ UNCHANGED <<mu, S, points, moons, adaptive>>

NextFB == \E tt \in StepSizes : Step(tt)

SpecFB == InitFB /\ [][NextFB]_vars

\* ------------------------------------------- construct, __main__ and plot
\* the module is loaded and no problem has been built
InitMain ==
    /\ mu = Undefined
    /\ S = <<>>
    /\ X = <<>>
    /\ ret = NoCall
    /\ iter = 0
    /\ points = <<>>
    /\ moons = NoMoons
    /\ adaptive = Undefined

\* problem, X0 = MaxNormProblem.construct(N, D, noise, dx, K, mu)
Built(N, D, noise, dx, K, m, z, z0) ==
    LET sep == separate(circle(N, D), N, dx)
        pts == addnoise(sep, noise, z)
    IN  /\ moons' = [N |-> N, dx |-> dx, pts |-> sep]
        /\ points' = pts
        /\ mu' = m
        /\ S' = similarity(pts)
        /\ X' = guess(z0, K)

Construct(N, D, noise, dx, K, m, z, z0) ==
    /\ points = <<>>
    /\ Built(N, D, noise, dx, K, m, z, z0)
    /\ ret' = [fn |-> "construct"]
    /\ UNCHANGED <<iter, adaptive>>

\* problem.plot(solution)
Plot(solution, r) ==
    /\ points # <<>>
    /\ Shape(solution)[1] = Len(points)
    /\ Len(r) = Cols(solution)
    /\ ret' = [fn |-> "plot", solution |-> solution,
               out |-> plot(adaptive, points, solution, r)]
    /\ UNCHANGED <<mu, S, X, iter, points, moons, adaptive>>

\* the script: construct() with its defaults (N and K within the bounds),
\* test_modes, whose first result is bound to `adaptive`, then
\* problem.plot(adaptive[0])
Main(N, K, z, z0, sol, r) ==
    /\ points = <<>>
    /\ adaptive = Undefined
    /\ Built(N, 2, <<3, 20>>, <<One, <<1, 2>>>>, K, One, z, z0)
    /\ adaptive' = <<sol, "convergence">>
    /\ ret' = [fn |-> "plot", solution |-> adaptive'[1],
               out |-> plot(adaptive', points', adaptive'[1], r)]
    /\ UNCHANGED iter

NextMain ==
    \/ \E N \in 1..MaxN, D \in Dims, noise \in NoiseLevels, dx \in Separations,
          K \in Ranks, m \in {One, Two} :
          \E z \in Randn(N, D), z0 \in Randn(N, K) :
             Construct(N, D, noise, dx, K, m, z, z0)
    \/ \E K \in Ranks : \E solution \in Solutions(Len(points), K), r \in Randn(1, K) :
          Plot(solution, r[1])
    \/ \E N \in 1..MaxN, K \in Ranks :
          \E z \in Randn(N, 2), z0 \in Randn(N, K), sol \in Solutions(N, K),
             r \in Randn(1, K) :
             Main(N, K, z, z0, sol, r[1])

SpecMain == InitMain /\ [][NextMain]_vars

\* C4: the labels plot(solution) plots are the signs of the products of the
\* rows of its argument with the random vector, whatever the module-level
\* names hold.
C4_PlotsItsArgument ==
    ret.fn = "plot" =>
        /\ ret.out.raised = "none"
        /\ ret.out.labels =
               [i \in 1..Rows(ret.solution) |-> RSign(Dot(ret.solution[i], ret.out.r))]

\* C5: before the noise is added, point i is translated by -dx in its first
\* two coordinates if and only if 2 i < N (its angle is below pi), and is
\* left on the unit circle otherwise.
Translated(p, dx) == p.off[1] = RNeg(dx[1]) /\ p.off[2] = RNeg(dx[2])
OnCircle(p) == IsZeroRow(p.off)
C5_TopMoonSeparated ==
    moons.N > 0 =>
        \A i \in 0..(moons.N - 1) :
            /\ Translated(moons.pts[i + 1], moons.dx) <=> 2 * i < moons.N
            /\ OnCircle(moons.pts[i + 1]) <=> ~(2 * i < moons.N)

\* ------------------------------------------------------ claims on proxg
\* ||v|| <= r, for r >= 0
RowNormLe(v, r) == RLe(Zero, r) /\ RLe(SumSq(v), RMul(r, r))
Feasible(M) == \A i \in 1..Rows(M) : RowNormLe(M[i], mu)
\* the squared Frobenius distance
Dist2(A, B) == Inner(MatSub(A, B), MatSub(A, B))
AfterProxg == ret.fn = "proxg"

\* the matrices of the shape of M on the grid of halves that covers the
\* feasible set (every entry of a feasible matrix is within -mu..mu)
HalfGrid == {Q(m, 2) : m \in -MaxMu..MaxMu}
FeasibleRows(k) == {v \in Vectors(k, HalfGrid) : RowNormLe(v, mu)}
FeasibleLike(M) == [1..Rows(M) -> FeasibleRows(Cols(M))]

\* C1: whatever mu > 0, every row of the matrix proxg returns has squared
\* L2 norm at most 1, the constraint of the module docstring.
C1_RowsInUnitBall ==
    (AfterProxg /\ RLt(Zero, mu)) =>
        \A i \in 1..Rows(ret.val) : RLe(SumSq(ret.val[i]), One)

\* C2: proxg(X, t) is feasible (every row has norm <= mu) and no feasible
\* matrix is strictly closer to X in squared Frobenius distance.
C2_Projection ==
    AfterProxg =>
        /\ Feasible(ret.val)
        /\ LET d == Dist2(ret.val, ret.arg)
           IN  \A Y \in FeasibleLike(ret.arg) : ~RLt(Dist2(Y, ret.arg), d)

\* a row was shrunk, and feasible matrices other than the result exist
C2_Witness ==
    /\ AfterProxg
    /\ ret.nth = 1
    /\ Shape(ret.arg) = <<2, 1>>
    /\ ~RowNormLe(ret.arg[1], mu)
    /\ RowNormLe(ret.arg[2], mu)
    /\ ret.arg[2] # <<Zero>>
    /\ RLt(Zero, mu)
    /\ Cardinality(FeasibleLike(ret.arg)) > 1

\* C7: for mu > 0, a row of norm <= mu is returned unchanged, and a row of
\* norm > mu is returned multiplied by the positive factor mu / norm, so
\* that its norm is exactly mu.
C7_ShrinksOnlyBigRows ==
    (AfterProxg /\ RLt(Zero, mu)) =>
        \A i \in 1..Rows(ret.arg) :
            LET n == norms(ret.arg)[i]
                c == RDiv(mu, n)
            IN  IF RLe(n, mu)
                THEN ret.val[i] = ret.arg[i]
                ELSE /\ RLt(Zero, c)
                     /\ ret.val[i] = MatScale(c, <<ret.arg[i]>>)[1]
                     /\ norms(ret.val)[i] = mu

\* a row with two non-zero entries was shrunk
C7_Witness ==
    /\ AfterProxg
    /\ ret.nth = 1
    /\ RLt(Zero, mu)
    /\ Shape(ret.arg) = <<1, 2>>
    /\ ret.arg[1][1] # Zero
    /\ ret.arg[1][2] # Zero
    /\ RLt(mu, norms(ret.arg)[1])
    /\ ret.val # ret.arg

\* C8: for every mu >= 0 every entry of the divisor scale is strictly
\* positive, and an all-zero row is returned as an all-zero row.
C8_NoDivisionByZero ==
    AfterProxg =>
        \A i \in 1..Rows(ret.arg) :
            /\ RLt(Zero, ret.scale[i])
            /\ ret.scale[i][2] # 0
            /\ IsZeroRow(ret.arg[i]) => IsZeroRow(ret.val[i])

\* mu = 0 and a row of zeros
C8_Witness ==
    /\ AfterProxg
    /\ mu = Zero
    /\ \E i \in 1..Rows(ret.arg) : IsZeroRow(ret.arg[i])
    /\ \E i \in 1..Rows(ret.arg) : ~IsZeroRow(ret.arg[i])

\* C9: proxg(proxg(X, t), t') = proxg(X, t) for all step sizes t and t'.
C9_Idempotent ==
    (AfterProxg /\ ret.prev.fn = "proxg") =>
        /\ ret.arg = ret.prev.val
        /\ ret.val = ret.prev.val

\* the first call changed the matrix and the second has another step size
C9_Witness ==
    /\ AfterProxg
    /\ ret.prev.fn = "proxg"
    /\ ret.prev.val # ret.prev.arg
    /\ ret.prev.t # ret.t
    /\ RLt(Zero, mu)
    /\ \E i \in 1..Rows(ret.val) : ~IsZeroRow(ret.val[i])

\* C6: after each step X <- proxg(X - t gradf(X), t), whatever mu >= 0, S,
\* the initial guess and the step sizes, the iterate has the shape of X0
\* and every row of it has norm <= mu.
C6_IteratesFeasible ==
    ret.fn = "step" =>
        /\ IsMatrix(X, Rows(ret.X0), Cols(ret.X0))
        /\ Feasible(X)

\* second step, from an infeasible guess, S not symmetric, the gradient
\* step left the feasible set and two step sizes were used
C6_Witness ==
    /\ ret.fn = "step"
    /\ iter = 2
    /\ Shape(ret.X0) = <<2, 1>>
    /\ ~Feasible(ret.X0)
    /\ ~Feasible(ret.z)
    /\ S # Transpose(S)
    /\ RLt(Zero, mu)
    /\ ret.arg # ret.val

====
